---- MODULE Spec2Model ----
(***************************************************************************)
(* Dungeon generation of thatch (src/generation/dungeon.rs,                *)
(* src/generation/mod.rs): the stair layout planner, the per-floor         *)
(* generator with progressive wall carving, the single-floor generator,    *)
(* the stair repair by a Bresenham corridor, and the validators.           *)
(*                                                                         *)
(* The 80x50 level, the 26 floors, the stair margin and the stair          *)
(* separation are scaled down to the bounds below; every draw of the       *)
(* random source is a nondeterministic choice from the range the code      *)
(* passes to gen_range (or from the listed samples of that range).         *)
(* A tile is modelled by its tile_type; the visibility flags play no part  *)
(* in generation. A room is modelled by id, top_left, width and height;    *)
(* room_type is drawn by the code but never read by generation.            *)
(***************************************************************************)
EXTENDS Integers, Sequences, FiniteSets, TLC

\* ---------------------------------------------------------------- bounds
\* level_width of generate_floor_with_stairs / generate_stair_layout (80).
LevelWidth == 7
\* level_height of generate_floor_with_stairs / generate_stair_layout (50).
LevelHeight == 4
\* Side of the square level of single-floor generate (clamp(.., 50, 200)).
SingleSide == 5
\* Number of floors of the dungeon (26).
NumFloors == 3
\* Inset of the stair positions from the level's edge (5).
StairMargin == 1
\* Minimum Manhattan distance between a floor's two stairs (10).
MinStairSeparation == 2
\* config.min_room_size and config.max_room_size.
RoomSizeMin == 1
RoomSizeMax == 1
\* config.min_rooms and config.max_rooms (single-floor generation).
RoomsMin == 1
RoomsMax == 2
\* Width and height of the levels handed to the validators.
ArbWidth == 2
ArbHeight == 1
\* Width and height of the grids create_stair_connection is applied to.
ConnWidth == 5
ConnHeight == 4
\* Width and height of the level and largest room size for
\* create_room_around_position on its own.
AroundWidth == 8
AroundHeight == 7
AroundSizeMax == 3

\* ------------------------------------------------------ program constants
MaxStairAttempts == 20
TargetRoomsLo == 2
AttemptsPerRoom == 10
FailuresNew == 1000
FailuresTesting == 50
PlacementAttemptsNew == 100
PlacementAttemptsTesting == 50
WallQuotaDivisor == 3

\* ------------------------------------------------------------ positions
None == <<>>
Some(p) == <<p>>
IsSome(o) == o # <<>>
Unwrap(o) == o[1]

Abs(n) == IF n < 0 THEN -n ELSE n
Max2(a, b) == IF a > b THEN a ELSE b
Min2(a, b) == IF a < b THEN a ELSE b

manhattan_distance(a, b) == Abs(a[1] - b[1]) + Abs(a[2] - b[2])

cardinal_adjacent_positions(p) ==
    { <<p[1], p[2] - 1>>, <<p[1] - 1, p[2]>>, <<p[1] + 1, p[2]>>, <<p[1], p[2] + 1>> }

adjacent_positions(p) ==
    { <<p[1] + dx, p[2] + dy>> : dx \in {-1, 0, 1}, dy \in {-1, 0, 1} } \ {p}

\* ---------------------------------------------------------------- tiles
TileTypes == {"Wall", "Floor", "DoorOpen", "DoorClosed", "StairsUp", "StairsDown",
              "Water", "Special"}

is_passable(t) == t \in {"Floor", "DoorOpen", "StairsUp", "StairsDown", "Special"}

IsStairs(t) == t \in {"StairsUp", "StairsDown"}

\* ---------------------------------------------------------------- level
Positions(w, h) == (0 .. w - 1) \X (0 .. h - 1)

LevelNew(id, w, h) ==
    [ id |-> id, width |-> w, height |-> h,
      tiles |-> [p \in Positions(w, h) |-> "Wall"],
      player_spawn |-> <<0, 0>>,
      stairs_up_position |-> None,
      stairs_down_position |-> None ]

is_valid_position(level, p) ==
    /\ p[1] >= 0 /\ p[1] < level.width
    /\ p[2] >= 0 /\ p[2] < level.height

\* get_tile(pos) for a position known to be valid.
get_tile(level, p) == level.tiles[p]

\* set_tile(pos, tile): an invalid position is an error and changes nothing.
set_tile(level, p, t) ==
    IF is_valid_position(level, p) THEN [level EXCEPT !.tiles[p] = t] ELSE level

OnBorder(level, p) ==
    \/ p[1] = 0 \/ p[2] = 0 \/ p[1] = level.width - 1 \/ p[2] = level.height - 1

\* ------------------------------------------------------ faulty variants
\* Deliberately wrong versions of program steps. Substituting one for the
\* step it replaces must break the property that depends on that step.

\* create_stair_connection that carves nothing.
NoConnection(level, start, end) == level

\* all_rooms_connected that accepts every wall.
AlwaysConnected(level, rs) == TRUE

\* The planner forgetting the previous floor's down stairs.
StairsUpAlwaysNone == None

\* The floor loop ignoring the planned stairs.
NoFloorStairs == <<None, None>>

\* The buffer loop of create_stair_connection left out.
KeepBuffer(level, line) == level

\* The line loop of create_stair_connection without the stair exception.
ClearLineOverStairs(level, line) ==
    [level EXCEPT !.tiles =
        [p \in DOMAIN level.tiles |-> IF p \in line THEN "Floor" ELSE level.tiles[p]]]

\* create_room_around_position ignoring the position it is given.
RoomAtOrigin(room_id, c, w, h, level) == [ id |-> room_id, top_left |-> <<1, 1>>, width |-> w, height |-> h ]

\* validate_level counting every passable tile instead of Floor tiles.
ValidatePassable(level) ==
    IF \E p \in DOMAIN level.tiles : is_passable(level.tiles[p])
    THEN "Ok" ELSE "GenerationFailed"


\* Room::center answering the level's corner instead of the room's center.
CornerOfLevel(room) == <<0, 0>>


\* get_non_room_floor_positions without the room test.
AllFloorPositions(level, rs) ==
    { p \in DOMAIN level.tiles : level.tiles[p] = "Floor" }


\* max_failures without the halving for multi-floor generation.
FullBudget(gen) == gen.max_connectivity_failures

\* The loop condition without the wall quota.
ContinuesPastQuota(gen, failures, avail, placed, quota) ==
    /\ failures < gen.max_connectivity_failures
    /\ avail # {}


\* initialize_level_with_rooms turning the border into Floor as well.
InitializeWholeGrid(level, rs) ==
    [level EXCEPT !.tiles = [p \in DOMAIN level.tiles |-> "Floor"]]


\* ----------------------------------------------------------------- rooms
RoomNew(id, top_left, w, h) == [ id |-> id, top_left |-> top_left, width |-> w, height |-> h ]

center(room) == << room.top_left[1] + room.width \div 2, room.top_left[2] + room.height \div 2 >>

contains(room, p) ==
    /\ p[1] >= room.top_left[1]
    /\ p[2] >= room.top_left[2]
    /\ p[1] < room.top_left[1] + room.width
    /\ p[2] < room.top_left[2] + room.height

floor_positions(room) ==
    { <<x, y>> : x \in (room.top_left[1] + 1) .. (room.top_left[1] + room.width - 2),
                 y \in (room.top_left[2] + 1) .. (room.top_left[2] + room.height - 2) }

all_positions(room) ==
    { <<x, y>> : x \in room.top_left[1] .. (room.top_left[1] + room.width - 1),
                 y \in room.top_left[2] .. (room.top_left[2] + room.height - 1) }

SeqRange(s) == { s[i] : i \in 1 .. Len(s) }

\* ---------------------------------------------------------- connectivity
PassableNeighbors(level, p) ==
    { n \in cardinal_adjacent_positions(p) :
        is_valid_position(level, n) /\ is_passable(get_tile(level, n)) }

\* The search loop of has_path: `open` holds the positions pushed and not yet
\* expanded, `scored` the positions that have a g_score. The goal is reported
\* when it is popped; a neighbour is pushed when it is valid, passable and not
\* yet scored (all steps cost 1, so a later push of a scored position never
\* reaches a new position).
RECURSIVE AStarLoop(_, _, _, _)
AStarLoop(level, goal, scored, open) ==
    IF open = {} THEN FALSE
    ELSE IF goal \in open THEN TRUE
    ELSE LET pushed == UNION { PassableNeighbors(level, c) : c \in open } \ scored
         IN  AStarLoop(level, goal, scored \cup pushed, pushed)

has_path(level, start, goal) == AStarLoop(level, goal, {start}, {start})

RECURSIVE FloodLoop(_, _, _)
FloodLoop(level, reachable, queue) ==
    IF queue = {} THEN reachable
    ELSE LET found == UNION { PassableNeighbors(level, c) : c \in queue } \ reachable
         IN  FloodLoop(level, reachable \cup found, found)

flood_fill_reachable(level, start) ==
    IF is_valid_position(level, start) /\ is_passable(get_tile(level, start))
    THEN FloodLoop(level, {start}, {start})
    ELSE {}

\* --------------------------------------------------------- stair repair
\* The loop of line_between_points from the current point (x0, y0) with error
\* term err; the result is the sequence of points pushed.
RECURSIVE LineLoop(_, _, _, _, _, _, _, _, _)
LineLoop(x0, y0, x1, y1, dx, dy, sx, sy, err) ==
    IF x0 = x1 /\ y0 = y1 THEN << <<x0, y0>> >>
    ELSE LET e2   == 2 * err
             stepx == e2 > -dy
             stepy == e2 < dx
             err1 == IF stepx THEN err - dy ELSE err
             nx   == IF stepx THEN x0 + sx ELSE x0
             err2 == IF stepy THEN err1 + dx ELSE err1
             ny   == IF stepy THEN y0 + sy ELSE y0
         IN  << <<x0, y0>> >> \o LineLoop(nx, ny, x1, y1, dx, dy, sx, sy, err2)

line_between_points(start, end) ==
    LET dx == Abs(end[1] - start[1])
        dy == Abs(end[2] - start[2])
        sx == IF start[1] < end[1] THEN 1 ELSE -1
        sy == IF start[2] < end[2] THEN 1 ELSE -1
    IN  LineLoop(start[1], start[2], end[1], end[2], dx, dy, sx, sy, dx - dy)

\* First loop of create_stair_connection: every valid point of the line that
\* is not a stair tile becomes Floor.
ClearLine(level, line) ==
    [level EXCEPT !.tiles =
        [p \in DOMAIN level.tiles |->
            IF p \in line /\ ~IsStairs(level.tiles[p]) THEN "Floor" ELSE level.tiles[p]]]

\* Second loop: every Wall that is cardinal-adjacent to a point of the line
\* and not on the level boundary becomes Floor.
ClearBuffer(level, line) ==
    LET around == UNION { cardinal_adjacent_positions(q) : q \in line }
    IN  [level EXCEPT !.tiles =
            [p \in DOMAIN level.tiles |->
                IF /\ p \in around
                   /\ p[1] > 0 /\ p[2] > 0
                   /\ p[1] < level.width - 1 /\ p[2] < level.height - 1
                   /\ level.tiles[p] = "Wall"
                THEN "Floor" ELSE level.tiles[p]]]

create_stair_connection(level, start, end) ==
    LET line == SeqRange(line_between_points(start, end))
    IN  ClearBuffer(ClearLine(level, line), line)

\* ------------------------------------------------------------ validation
\* utils::validate_level: Ok exactly when some tile has tile_type Floor.
validate_level(level) ==
    IF Cardinality({ p \in DOMAIN level.tiles : level.tiles[p] = "Floor" }) = 0
    THEN "GenerationFailed" ELSE "Ok"

\* validate_world on the levels w (level id -> level): validate_level on every
\* level, then the alignment loop over the adjacent level ids.
validate_world(w) ==
    IF \E i \in DOMAIN w : validate_level(w[i]) # "Ok" THEN "GenerationFailed"
    ELSE IF \E level_id \in 0 .. (NumFloors - 2) :
               /\ level_id \in DOMAIN w
               /\ (level_id + 1) \in DOMAIN w
               /\ IsSome(w[level_id].stairs_down_position)
               /\ IsSome(w[level_id + 1].stairs_up_position)
               /\ Unwrap(w[level_id].stairs_down_position)
                      # Unwrap(w[level_id + 1].stairs_up_position)
         THEN "GenerationFailed"
         ELSE "Ok"

\* ------------------------------------------------------------- generator
GeneratorNew ==
    [ max_connectivity_failures |-> FailuresNew,
      max_placement_attempts |-> PlacementAttemptsNew,
      generate_all_floors |-> TRUE ]

GeneratorForTesting ==
    [ max_connectivity_failures |-> FailuresTesting,
      max_placement_attempts |-> PlacementAttemptsTesting,
      generate_all_floors |-> FALSE ]

GenerationConfig ==
    [ min_room_size |-> RoomSizeMin, max_room_size |-> RoomSizeMax,
      min_rooms |-> RoomsMin, max_rooms |-> RoomsMax ]

\* gen_range(2..=5) for target_additional_rooms, sampled at its lower end.
TargetRoomDraws == {TargetRoomsLo}

RoomSizeDraws(cfg) == cfg.min_room_size .. cfg.max_room_size

\* gen_range(1..(level.width - width - 1)): the two ends of the range.
RoomXDraws(level, w) ==
    IF level.width - w - 2 >= 1 THEN {1, level.width - w - 2} ELSE {}

RoomYDraws(level, h) ==
    IF level.height - h - 2 >= 1 THEN {1, level.height - h - 2} ELSE {}

\* gen_range(5..(level_width - 5)) and gen_range(5..(level_height - 5)):
\* the two ends of each range.
StairXDraws == {StairMargin, LevelWidth - StairMargin - 1}
StairYDraws == {StairMargin, LevelHeight - StairMargin - 1}

LastFloor == NumFloors - 1

room_fits_in_level(level, room) ==
    /\ room.top_left[1] >= 1
    /\ room.top_left[2] >= 1
    /\ room.top_left[1] + room.width < level.width - 1
    /\ room.top_left[2] + room.height < level.height - 1

\* generate_room_candidate under RoomPlacementStrategy::Random, for the drawn
\* width, height, x and y.
generate_room_candidate(room_id, w, h, x, y) == RoomNew(room_id, <<x, y>>, w, h)

create_room_around_position(room_id, c, w, h, level) ==
    LET top_left_x == Max2(c[1] - w \div 2, 1)
        top_left_y == Max2(c[2] - h \div 2, 1)
        adjusted_x == Min2(top_left_x, level.width - w - 1)
        adjusted_y == Min2(top_left_y, level.height - h - 1)
    IN  RoomNew(room_id, <<adjusted_x, adjusted_y>>, w, h)

is_position_in_any_room(p, rs) == \E i \in 1 .. Len(rs) : contains(rs[i], p)

initialize_level_with_rooms(level, rs) ==
    LET inRooms == UNION { all_positions(rs[i]) : i \in 1 .. Len(rs) }
    IN  [level EXCEPT !.tiles =
            [p \in DOMAIN level.tiles |->
                IF \/ /\ p[1] >= 1 /\ p[1] <= level.width - 2
                      /\ p[2] >= 1 /\ p[2] <= level.height - 2
                   \/ p \in inRooms
                THEN "Floor" ELSE level.tiles[p]]]

get_non_room_floor_positions(level, rs) ==
    { p \in DOMAIN level.tiles :
        /\ p[1] >= 1 /\ p[1] <= level.width - 2
        /\ p[2] >= 1 /\ p[2] <= level.height - 2
        /\ level.tiles[p] = "Floor"
        /\ ~is_position_in_any_room(p, rs) }

all_rooms_connected(level, rs) ==
    IF Len(rs) < 2 THEN TRUE
    ELSE \A i \in 2 .. Len(rs) : has_path(level, center(rs[1]), center(rs[i]))

\* max_failures of progressive_wall_placement.
MaxFailures(gen) ==
    IF gen.generate_all_floors
    THEN gen.max_connectivity_failures \div 2
    ELSE gen.max_connectivity_failures

\* The loop condition of progressive_wall_placement.
CarveContinues(gen, failures, avail, placed, quota) ==
    /\ failures < MaxFailures(gen)
    /\ avail # {}
    /\ placed < quota

\* fill_unreachable_areas without the exception for stair tiles.
FillOverStairs(level) ==
    LET reachable_tiles == FloodLoop(level, {level.player_spawn}, {level.player_spawn})
    IN  [level EXCEPT !.tiles =
            [p \in DOMAIN level.tiles |->
                IF is_passable(level.tiles[p]) /\ p \notin reachable_tiles
                THEN "Wall" ELSE level.tiles[p]]]

\* fill_unreachable_areas on a level whose spawn is reachable: every passable
\* tile that is no stair and was not reached by the flood fill becomes Wall.
fill_unreachable_areas(level) ==
    LET reachable_tiles == flood_fill_reachable(level, level.player_spawn)
    IN  [level EXCEPT !.tiles =
            [p \in DOMAIN level.tiles |->
                IF /\ ~IsStairs(level.tiles[p])
                   /\ is_passable(level.tiles[p])
                   /\ p \notin reachable_tiles
                THEN "Wall" ELSE level.tiles[p]]]

is_good_stair_position(level, p) ==
    /\ is_valid_position(level, p)
    /\ level.tiles[p] = "Floor"
    /\ \E a \in adjacent_positions(p) :
          IF is_valid_position(level, a) THEN level.tiles[a] = "Wall" ELSE TRUE

AllRoomFloorPositions(rs) == UNION { floor_positions(rs[i]) : i \in 1 .. Len(rs) }

\* find_stairs_position: the positions the call can return (one of the
\* candidates, picked by the random source, or the fallbacks).
find_stairs_position(level, rs) ==
    LET candidates == { p \in AllRoomFloorPositions(rs) : is_good_stair_position(level, p) }
    IN  IF candidates # {} THEN candidates
        ELSE IF Len(rs) > 0 THEN { center(rs[1]) }
        ELSE { << level.width \div 2, level.height \div 2 >> }

\* find_stairs_position_avoiding: the positions the call can return.
find_stairs_position_avoiding(level, rs, avoid) ==
    LET candidates ==
            { p \in AllRoomFloorPositions(rs) :
                /\ is_good_stair_position(level, p)
                /\ p # avoid
                /\ manhattan_distance(p, avoid) >= 5 }
        fallback_candidates == AllRoomFloorPositions(rs) \ {avoid}
        fallback ==
            << IF avoid[1] > level.width \div 2
               THEN level.width \div 4 ELSE (level.width * 3) \div 4,
               IF avoid[2] > level.height \div 2
               THEN level.height \div 4 ELSE (level.height * 3) \div 4 >>
    IN  IF candidates # {} THEN candidates
        ELSE IF fallback_candidates # {} THEN fallback_candidates
        ELSE { fallback }

\* add_stairs up to the placement of the up stairs at the drawn position.
PlaceStairsUp(level, up) ==
    [ set_tile(level, up, "StairsUp") EXCEPT
        !.stairs_up_position = Some(up), !.player_spawn = up ]

\* add_stairs for the drawn positions up and down (rooms is not empty and
\* level.id is below the last floor's).
add_stairs(level, up, down) ==
    LET l1 == PlaceStairsUp(level, up)
        l2 == [ set_tile(l1, down, "StairsDown") EXCEPT !.stairs_down_position = Some(down) ]
    IN  IF ~has_path(l2, up, down) THEN create_stair_connection(l2, up, down) ELSE l2

\* Step 5 of generate_floor_with_stairs and the final check of generate.
EnsureStairsConnected(level) ==
    IF IsSome(level.stairs_up_position) /\ IsSome(level.stairs_down_position)
    THEN LET up == Unwrap(level.stairs_up_position)
             down == Unwrap(level.stairs_down_position)
         IN  IF ~has_path(level, up, down)
             THEN create_stair_connection(level, up, down) ELSE level
    ELSE level

PassableCount(level) == Cardinality({ p \in DOMAIN level.tiles : is_passable(level.tiles[p]) })

\* ----------------------------------------------------------------- state
VARIABLES
    pc,                     \* position in generate_world / generate / the checked call
    generator,              \* the RoomCorridorGenerator
    config,                 \* the GenerationConfig
    stair_positions,        \* generate_stair_layout: floor_id -> <<up, down>>
    floor_id,               \* loop variable of the planner and of the floor loop
    candidate_pos,          \* generate_stair_layout: candidate_pos
    plan_attempts,          \* generate_stair_layout: attempts
    level,                  \* the level under construction (or under check)
    rooms,                  \* the rooms placed on it
    room_target,            \* target_additional_rooms / room_count
    room_attempts,          \* attempts / room_id of the placement loop
    available_positions,    \* progressive_wall_placement: available_positions
    connectivity_failures,  \* progressive_wall_placement: connectivity_failures
    walls_placed,           \* progressive_wall_placement: walls_placed
    max_walls_to_place,     \* progressive_wall_placement: max_walls_to_place
    world,                  \* World.levels: id -> the level's header fields
    result,                 \* what the call returned: "none", "Ok", "Ok(true)", an error
    before,                 \* the level as it was when the last step began
    endpoints,              \* the two positions handed to the checked call
    game,                   \* the GameState built on the generated world
    prev_game,              \* the GameState as it was when the last call began
    call,                   \* the last GameState call and its argument
    single_run,             \* progressive_wall_placement of for_testing() run alongside
    search                  \* find_path: start, goal, open_set, came_from, g_score, path

vars == << pc, generator, config, stair_positions, floor_id, candidate_pos, plan_attempts,
           level, rooms, room_target, room_attempts, available_positions,
           connectivity_failures, walls_placed, max_walls_to_place, world, result,
           before, endpoints, game, prev_game, call, single_run, search >>

planVars == << stair_positions, candidate_pos, plan_attempts >>
carveVars == << available_positions, connectivity_failures, walls_placed, max_walls_to_place >>
roomVars == << rooms, room_target, room_attempts >>
checkVars == << before, endpoints, single_run, search >>
gameVars == << game, prev_game, call >>

NoLevel == LevelNew(0, 0, 0)
NoPos == <<0, 0>>

LevelHeader(l) ==
    [ id |-> l.id, player_spawn |-> l.player_spawn,
      stairs_up_position |-> l.stairs_up_position,
      stairs_down_position |-> l.stairs_down_position ]

\* World::new: the world starts with a default level 0.
WorldNew == (0 :> LevelHeader(LevelNew(0, LevelWidth, LevelHeight)))

\* World::add_level: insert (or replace) under the level's id.
add_level(w, l) ==
    [ i \in DOMAIN w \cup {l.id} |-> IF i = l.id THEN LevelHeader(l) ELSE w[i] ]

\* GameStatistics::new, the fields change_to_level updates.
StatisticsNew == [ max_depth_reached |-> 0, levels_explored |-> 0 ]

\* GameState on the levels w before any entity is added: no entities, an
\* empty position index, no player, the world on level 0.
GameNew(w) ==
    [ current_level_id |-> 0,
      player_id |-> None,
      entities |-> [ i \in {} |-> NoPos ],
      position_index |-> [ p \in {} |-> << >> ],
      level_entities |-> [ k \in DOMAIN w |-> {} ],
      statistics |-> StatisticsNew,
      completion_state |-> "Playing" ]

NoCall == [ op |-> "none", direction |-> "none", level_id |-> 0 ]

\* No GameState has been built yet.
GameIdle ==
    /\ game = GameNew(WorldNew)
    /\ prev_game = GameNew(WorldNew)
    /\ call = NoCall

\* The locals of the planner, of the room placement and of the carving before
\* any of them has run.
\* A run of progressive_wall_placement: the generator it runs on and its locals.
RunNew(gen, l, rs) ==
    [ generator |-> gen, level |-> l,
      available_positions |-> get_non_room_floor_positions(l, rs),
      connectivity_failures |-> 0, walls_placed |-> 0,
      max_walls_to_place |->
          Cardinality(get_non_room_floor_positions(l, rs)) \div WallQuotaDivisor ]

NoRun == RunNew(GeneratorForTesting, NoLevel, << >>)

\* find_path before its loop: start is in the open set with g_score 0.
SearchNew(start, goal) ==
    [ start |-> start, goal |-> goal,
      open_set |-> { [ position |-> start, g |-> 0 ] },
      came_from |-> [ p \in {} |-> NoPos ],
      g_score |-> (start :> 0),
      path |-> None ]

NoSearch == [ SearchNew(NoPos, NoPos) EXCEPT !.open_set = {} ]

LocalsIdle ==
    /\ GameIdle
    /\ single_run = NoRun
    /\ search = NoSearch
    /\ stair_positions = <<>>
    /\ floor_id = 0
    /\ candidate_pos = NoPos
    /\ plan_attempts = 0
    /\ rooms = <<>>
    /\ room_target = 0
    /\ room_attempts = 0
    /\ available_positions = {}
    /\ connectivity_failures = 0
    /\ walls_placed = 0
    /\ max_walls_to_place = 0

Idle ==
    /\ LocalsIdle
    /\ level = NoLevel
    /\ world = WorldNew
    /\ result = "none"
    /\ before = NoLevel
    /\ endpoints = <<NoPos, NoPos>>

\* generate_world on RoomCorridorGenerator::new(), or generate on
\* RoomCorridorGenerator::for_testing().
Init ==
    /\ generator \in {GeneratorNew, GeneratorForTesting}
    /\ config = GenerationConfig
    /\ pc = IF generator.generate_all_floors THEN "plan" ELSE "single"
    /\ Idle

\* -------------------------------------------------- generate_stair_layout
PlanStairsUp ==
    IF floor_id > 0 /\ (floor_id - 1) \in DOMAIN stair_positions
    THEN stair_positions[floor_id - 1][2] ELSE None

PlanInsert(up, down) == stair_positions @@ (floor_id :> <<up, down>>)

\* An iteration for a floor that gets down stairs: the first draw.
PlanDraw ==
    /\ pc = "plan"
    /\ floor_id < NumFloors
    /\ floor_id < LastFloor
    /\ \E x \in StairXDraws, y \in StairYDraws :
          IF IsSome(PlanStairsUp)
          THEN /\ candidate_pos' = <<x, y>>
               /\ plan_attempts' = 0
               /\ pc' = "plan_retry"
               /\ UNCHANGED << stair_positions, floor_id >>
          ELSE /\ stair_positions' = PlanInsert(PlanStairsUp, Some(<<x, y>>))
               /\ floor_id' = floor_id + 1
               /\ UNCHANGED << candidate_pos, plan_attempts, pc >>
    /\ UNCHANGED << generator, config, level, roomVars, carveVars, world, result, checkVars, gameVars >>

\* An iteration of the re-sampling loop.
PlanResample ==
    /\ pc = "plan_retry"
    /\ plan_attempts < MaxStairAttempts
    /\ manhattan_distance(candidate_pos, Unwrap(PlanStairsUp)) < MinStairSeparation
    /\ \E new_x \in StairXDraws, new_y \in StairYDraws :
          candidate_pos' = <<new_x, new_y>>
    /\ plan_attempts' = plan_attempts + 1
    /\ UNCHANGED << pc, generator, config, stair_positions, floor_id, level, roomVars,
                    carveVars, world, result, checkVars, gameVars >>

\* A faulty exit of the re-sampling loop: the candidate is taken at any time.
PlanAcceptEarly ==
    /\ pc = "plan_retry"
    /\ stair_positions' = PlanInsert(PlanStairsUp, Some(candidate_pos))
    /\ floor_id' = floor_id + 1
    /\ candidate_pos' = NoPos
    /\ plan_attempts' = 0
    /\ pc' = "plan"
    /\ UNCHANGED << generator, config, level, roomVars, carveVars, world, result, checkVars, gameVars >>

\* The loop is left: the candidate is taken.
PlanAccept ==
    /\ pc = "plan_retry"
    /\ ~ ( /\ plan_attempts < MaxStairAttempts
           /\ manhattan_distance(candidate_pos, Unwrap(PlanStairsUp)) < MinStairSeparation )
    /\ stair_positions' = PlanInsert(PlanStairsUp, Some(candidate_pos))
    /\ floor_id' = floor_id + 1
    /\ candidate_pos' = NoPos
    /\ plan_attempts' = 0
    /\ pc' = "plan"
    /\ UNCHANGED << generator, config, level, roomVars, carveVars, world, result, checkVars, gameVars >>

\* The iteration of the last floor: no down stairs.
PlanLastFloor ==
    /\ pc = "plan"
    /\ floor_id < NumFloors
    /\ ~ (floor_id < LastFloor)
    /\ stair_positions' = PlanInsert(PlanStairsUp, None)
    /\ floor_id' = floor_id + 1
    /\ UNCHANGED << pc, candidate_pos, plan_attempts, generator, config, level, roomVars,
                    carveVars, world, result, checkVars, gameVars >>

\* generate_stair_layout returns; generate_complete_dungeon starts its loop.
PlanReturn ==
    /\ pc = "plan"
    /\ floor_id = NumFloors
    /\ pc' = "floors"
    /\ floor_id' = 0
    /\ UNCHANGED << planVars, generator, config, level, roomVars, carveVars, world, result,
                    checkVars, gameVars >>

\* --------------------------------------------- generate_floor_with_stairs
FloorStairs ==
    IF floor_id \in DOMAIN stair_positions THEN stair_positions[floor_id] ELSE <<None, None>>

StairCount(l) ==
    (IF IsSome(l.stairs_up_position) THEN 1 ELSE 0)
    + (IF IsSome(l.stairs_down_position) THEN 1 ELSE 0)

\* One call of try_place_room_overlapping for the drawn candidate.
try_place_room_overlapping(l, room) ==
    IF room_fits_in_level(l, room) THEN Some(room) ELSE None

\* The level is allocated, the rooms around its stairs are built and the
\* number of additional rooms is drawn.
FloorBegin ==
    /\ pc = "floors"
    /\ floor_id < NumFloors
    /\ LET up == FloorStairs[1]
           down == FloorStairs[2]
           l0 == [ LevelNew(floor_id, LevelWidth, LevelHeight) EXCEPT
                     !.stairs_up_position = up, !.stairs_down_position = down ]
       IN  \E wu \in RoomSizeDraws(config), hu \in RoomSizeDraws(config),
              wd \in RoomSizeDraws(config), hd \in RoomSizeDraws(config),
              t \in TargetRoomDraws :
              LET r1 == IF IsSome(up)
                        THEN << create_room_around_position(0, Unwrap(up), wu, hu, l0) >>
                        ELSE << >>
                  r2 == IF IsSome(down)
                        THEN Append(r1, create_room_around_position(Len(r1), Unwrap(down),
                                                                    wd, hd, l0))
                        ELSE r1
              IN  /\ level' = l0
                  /\ rooms' = r2
                  /\ room_target' = t
                  /\ room_attempts' = 0
    /\ pc' = "place_rooms"
    /\ UNCHANGED << generator, config, planVars, floor_id, carveVars, world, result, checkVars, gameVars >>

\* An iteration of the loop that adds the additional rooms.
PlaceRoom ==
    /\ pc = "place_rooms"
    /\ Len(rooms) < room_target + StairCount(level)
    /\ room_attempts < room_target * AttemptsPerRoom
    /\ \E w \in RoomSizeDraws(config), h \in RoomSizeDraws(config) :
       \E x \in RoomXDraws(level, w), y \in RoomYDraws(level, h) :
          LET placed == try_place_room_overlapping(
                            level, generate_room_candidate(Len(rooms), w, h, x, y))
          IN  rooms' = IF IsSome(placed) THEN Append(rooms, Unwrap(placed)) ELSE rooms
    /\ room_attempts' = room_attempts + 1
    /\ UNCHANGED << pc, generator, config, planVars, floor_id, level, room_target, carveVars,
                    world, result, checkVars, gameVars >>

\* The start of progressive_wall_placement on level l with rooms rs.
CarveInit(l, rs) ==
    LET avail == get_non_room_floor_positions(l, rs)
    IN  /\ available_positions' = avail
        /\ connectivity_failures' = 0
        /\ walls_placed' = 0
        /\ max_walls_to_place' = Cardinality(avail) \div WallQuotaDivisor

\* The loop is left: spawn, initialisation, stair tiles, start of the carving.
PlaceRoomsDone ==
    /\ pc = "place_rooms"
    /\ ~ ( /\ Len(rooms) < room_target + StairCount(level)
           /\ room_attempts < room_target * AttemptsPerRoom )
    /\ LET rs == IF rooms = << >>
                 THEN << RoomNew(0, << LevelWidth \div 2 - 5, LevelHeight \div 2 - 5 >>,
                                 10, 10) >>
                 ELSE rooms
           up == level.stairs_up_position
           down == level.stairs_down_position
           l1 == [ level EXCEPT !.player_spawn =
                       IF IsSome(up) THEN Unwrap(up) ELSE center(rs[1]) ]
           l2 == initialize_level_with_rooms(l1, rs)
           l3 == IF IsSome(up) THEN set_tile(l2, Unwrap(up), "StairsUp") ELSE l2
           l4 == IF IsSome(down) THEN set_tile(l3, Unwrap(down), "StairsDown") ELSE l3
       IN  /\ rooms' = rs
           /\ level' = l4
           /\ CarveInit(l4, rs)
    /\ pc' = "carve"
    /\ UNCHANGED << generator, config, planVars, floor_id, room_target, room_attempts,
                    world, result, checkVars, gameVars >>

\* ---------------------------------------------- progressive_wall_placement
\* An iteration whose wall keeps all rooms connected: the wall stays.
CarveKeep ==
    /\ pc = "carve"
    /\ CarveContinues(generator, connectivity_failures, available_positions,
                      walls_placed, max_walls_to_place)
    /\ \E pos \in available_positions :
          LET walled == set_tile(level, pos, "Wall")
          IN  /\ all_rooms_connected(walled, rooms)
              /\ level' = walled
              /\ available_positions' = available_positions \ {pos}
    /\ walls_placed' = walls_placed + 1
    /\ UNCHANGED << pc, generator, config, planVars, floor_id, roomVars,
                    connectivity_failures, max_walls_to_place, world, result, checkVars, gameVars >>

\* A faulty rejection: the tile is restored and the failure counted, but the
\* candidate stays in the pool.
CarveRevertKeepsCandidate ==
    /\ pc = "carve"
    /\ CarveContinues(generator, connectivity_failures, available_positions,
                      walls_placed, max_walls_to_place)
    /\ \E pos \in available_positions :
          ~all_rooms_connected(set_tile(level, pos, "Wall"), rooms)
    /\ connectivity_failures' = connectivity_failures + 1
    /\ UNCHANGED << pc, generator, config, planVars, floor_id, level, roomVars,
                    available_positions, walls_placed, max_walls_to_place, world, result,
                    checkVars, gameVars >>

\* An iteration whose wall disconnects some room: the tile is restored.
CarveRevert ==
    /\ pc = "carve"
    /\ CarveContinues(generator, connectivity_failures, available_positions,
                      walls_placed, max_walls_to_place)
    /\ \E pos \in available_positions :
          LET original_tile == get_tile(level, pos)
              walled == set_tile(level, pos, "Wall")
          IN  /\ ~all_rooms_connected(walled, rooms)
              /\ level' = set_tile(walled, pos, original_tile)
              /\ available_positions' = available_positions \ {pos}
    /\ connectivity_failures' = connectivity_failures + 1
    /\ UNCHANGED << pc, generator, config, planVars, floor_id, roomVars,
                    walls_placed, max_walls_to_place, world, result, checkVars, gameVars >>

\* ------------------------------- generate_floor_with_stairs, steps 5 and on
FloorFinish ==
    /\ pc = "carve"
    /\ generator.generate_all_floors
    /\ ~CarveContinues(generator, connectivity_failures, available_positions,
                       walls_placed, max_walls_to_place)
    /\ LET l5 == EnsureStairsConnected(level)
       IN  IF PassableCount(l5) = 0 \/ validate_level(l5) # "Ok"
           THEN /\ pc' = "failed"
                /\ result' = "GenerationFailed"
                /\ level' = l5
           ELSE /\ pc' = "floor_done"
                /\ result' = result
                /\ level' = l5
    /\ UNCHANGED << generator, config, planVars, floor_id, roomVars, carveVars, world,
                    checkVars, gameVars >>

\* generate_complete_dungeon: world.add_level(level) and the next floor.
AddLevel ==
    /\ pc = "floor_done"
    /\ world' = add_level(world, level)
    /\ floor_id' = floor_id + 1
    /\ pc' = IF floor_id + 1 = NumFloors THEN "world_done" ELSE "floors"
    /\ result' = IF floor_id + 1 = NumFloors THEN "Ok" ELSE result
    /\ level' = NoLevel
    /\ rooms' = << >>
    /\ room_target' = 0
    /\ room_attempts' = 0
    /\ available_positions' = {}
    /\ connectivity_failures' = 0
    /\ walls_placed' = 0
    /\ max_walls_to_place' = 0
    /\ UNCHANGED << generator, config, planVars, checkVars, gameVars >>

\* ------------------------------------------------- single-floor generate
SingleBegin ==
    /\ pc = "single"
    /\ level' = LevelNew(0, SingleSide, SingleSide)
    /\ \E room_count \in config.min_rooms .. config.max_rooms : room_target' = room_count
    /\ room_attempts' = 0
    /\ rooms' = << >>
    /\ pc' = "single_rooms"
    /\ UNCHANGED << generator, config, planVars, floor_id, carveVars, world, result,
                    checkVars, gameVars >>

\* place_rooms: the iteration for room_id = room_attempts.
SinglePlaceRoom ==
    /\ pc = "single_rooms"
    /\ room_attempts < room_target
    /\ \E w \in RoomSizeDraws(config), h \in RoomSizeDraws(config) :
       \E x \in RoomXDraws(level, w), y \in RoomYDraws(level, h) :
          LET placed == try_place_room_overlapping(
                            level, generate_room_candidate(room_attempts, w, h, x, y))
          IN  rooms' = IF IsSome(placed) THEN Append(rooms, Unwrap(placed)) ELSE rooms
    /\ room_attempts' = room_attempts + 1
    /\ UNCHANGED << pc, generator, config, planVars, floor_id, level, room_target, carveVars,
                    world, result, checkVars, gameVars >>

\* place_rooms returns; initialisation and the start of the carving.
SingleRoomsDone ==
    /\ pc = "single_rooms"
    /\ ~ (room_attempts < room_target)
    /\ IF rooms = << >>
       THEN /\ pc' = "failed"
            /\ result' = "GenerationFailed"
            /\ UNCHANGED << level, carveVars >>
       ELSE LET l1 == initialize_level_with_rooms(level, rooms)
            IN  /\ level' = l1
                /\ CarveInit(l1, rooms)
                /\ pc' = "carve"
                /\ result' = result
    /\ UNCHANGED << generator, config, planVars, floor_id, roomVars, world, checkVars, gameVars >>

\* generate, steps 4 and on: stairs, pruning, validation, final stair check.
SingleFinish ==
    /\ pc = "carve"
    /\ ~generator.generate_all_floors
    /\ ~CarveContinues(generator, connectivity_failures, available_positions,
                       walls_placed, max_walls_to_place)
    /\ \E up \in find_stairs_position(level, rooms) :
       \E down \in find_stairs_position_avoiding(PlaceStairsUp(level, up), rooms, up) :
          LET l1 == IF level.id < LastFloor THEN add_stairs(level, up, down)
                    ELSE PlaceStairsUp(level, up)
              l2 == fill_unreachable_areas(l1)
          IN  IF flood_fill_reachable(l1, l1.player_spawn) = {}
              THEN /\ pc' = "failed"
                   /\ result' = "GenerationFailed"
                   /\ level' = l1
              ELSE IF validate_level(l2) # "Ok"
              THEN /\ pc' = "failed"
                   /\ result' = "GenerationFailed"
                   /\ level' = l2
              ELSE /\ pc' = "single_done"
                   /\ result' = "Ok"
                   /\ level' = EnsureStairsConnected(l2)
    /\ UNCHANGED << generator, config, planVars, floor_id, roomVars, carveVars, world,
                    checkVars, gameVars >>

\* =================================================================
\* GameState on the pre-generated world (src/game/state.rs)
\* =================================================================

\* The id of the player entity (new_entity_id gives every entity its own id).
PlayerEntity == 1

\* The id of a second entity, and the ids entities are added with.
OtherEntity == 2
EntityIds == { PlayerEntity, OtherEntity }

\* The positions a player entity is created at.
PlayerStartDraws == { <<StairMargin, StairMargin>>, <<StairMargin + 1, StairMargin>> }

\* The level ids change_to_level is called with: every floor and two ids past
\* the last floor.
LevelIdDraws == 0 .. (NumFloors + 1)

add_entity_to_position_index(index, entity_id, position) ==
    IF position \in DOMAIN index
    THEN [ index EXCEPT ![position] = Append(@, entity_id) ]
    ELSE [ p \in DOMAIN index \cup {position} |->
             IF p = position THEN << entity_id >> ELSE index[p] ]

\* remove_entity_from_position_index that leaves an emptied list in the index.
RetainOnly(index, entity_id, position) ==
    IF position \in DOMAIN index
    THEN [ index EXCEPT ![position] = SelectSeq(@, LAMBDA id : id # entity_id) ]
    ELSE index

remove_entity_from_position_index(index, entity_id, position) ==
    IF position \in DOMAIN index
    THEN LET kept == SelectSeq(index[position], LAMBDA id : id # entity_id)
         IN  IF kept = << >>
             THEN [ p \in DOMAIN index \ {position} |-> index[p] ]
             ELSE [ index EXCEPT ![position] = kept ]
    ELSE index

get_entity_position(g, entity_id) ==
    IF entity_id \in DOMAIN g.entities THEN Some(g.entities[entity_id]) ELSE None

\* set_entity_position: an error for an unknown entity, else the entity and
\* the index move to new_position.
set_entity_position(g, entity_id, new_position) ==
    IF ~IsSome(get_entity_position(g, entity_id))
    THEN [ result |-> "InvalidState", game |-> g ]
    ELSE LET old_position == Unwrap(get_entity_position(g, entity_id))
             index1 == remove_entity_from_position_index(g.position_index, entity_id,
                                                         old_position)
         IN  [ result |-> "Ok",
               game |-> [ g EXCEPT
                            !.entities = [ @ EXCEPT ![entity_id] = new_position ],
                            !.position_index =
                                add_entity_to_position_index(index1, entity_id,
                                                             new_position) ] ]

\* get_player: the player's position when player_id names an entity.
get_player(g) ==
    IF IsSome(g.player_id) THEN get_entity_position(g, Unwrap(g.player_id)) ELSE None

\* Faulty variants of the level change, used to show that the properties
\* below tell the level change apart from them.
MoveWithoutPosition(w, g, player_id, level_id) ==
    [ g EXCEPT !.current_level_id = level_id ]

FailAfterMove(w, g, level_id) ==
    [ result |-> IF level_id \in DOMAIN w THEN "Ok" ELSE "InvalidState",
      game |-> [ g EXCEPT !.current_level_id = level_id ] ]

StairsAlwaysChange(w, g, direction) ==
    [ result |-> "Ok(true)",
      game |-> [ g EXCEPT !.current_level_id =
                   IF direction = "Up" THEN Max2(@ - 1, 0) ELSE Min2(@ + 1, NumFloors - 1) ] ]

\* add_entity for an entity with the given id and position.
add_entity(g, entity_id, position) ==
    [ g EXCEPT
        !.entities = [ i \in DOMAIN g.entities \cup {entity_id} |->
                         IF i = entity_id THEN position ELSE g.entities[i] ],
        !.position_index = add_entity_to_position_index(g.position_index, entity_id, position) ]

\* initialize_player: the entity, the index, player_id and the current level.
initialize_player(g, player_id, position) ==
    LET g1 == add_entity(g, player_id, position)
    IN  [ g1 EXCEPT
            !.player_id = Some(player_id),
            !.level_entities =
                IF g.current_level_id \in DOMAIN g.level_entities
                THEN [ g.level_entities EXCEPT ![g.current_level_id] = @ \cup {player_id} ]
                ELSE g.level_entities ]

\* The part of change_to_level that moves the player player_id to level_id.
MovePlayer(w, g, player_id, level_id) ==
    LET removed == IF g.current_level_id \in DOMAIN g.level_entities
                   THEN [ g.level_entities EXCEPT ![g.current_level_id] = @ \ {player_id} ]
                   ELSE g.level_entities
        spawn_pos == w[level_id].player_spawn
        old_pos == IF IsSome(get_player(g)) THEN Unwrap(get_player(g)) ELSE spawn_pos
        index1 == remove_entity_from_position_index(g.position_index, player_id, old_pos)
    IN  [ g EXCEPT
            !.current_level_id = level_id,
            !.level_entities = [ removed EXCEPT ![level_id] = @ \cup {player_id} ],
            !.entities = IF IsSome(get_player(g))
                         THEN [ g.entities EXCEPT ![player_id] = spawn_pos ]
                         ELSE g.entities,
            !.position_index = add_entity_to_position_index(index1, player_id, spawn_pos),
            !.statistics =
                IF level_id > g.statistics.max_depth_reached
                THEN [ max_depth_reached |-> level_id,
                       levels_explored |-> g.statistics.levels_explored + 1 ]
                ELSE g.statistics ]

\* change_to_level on the pre-generated levels w (levels.len() is not 1, so a
\* missing level is an error and nothing is generated on demand).
change_to_level(w, g, level_id) ==
    IF level_id \notin DOMAIN w
    THEN [ result |-> "InvalidState", game |-> g ]
    ELSE IF IsSome(g.player_id)
    THEN [ result |-> "Ok", game |-> MovePlayer(w, g, Unwrap(g.player_id), level_id) ]
    ELSE [ result |-> "Ok", game |-> g ]

\* use_stairs: result is "Ok(true)", "Ok(false)" or the error of change_to_level.
use_stairs(w, g, direction) ==
    LET current_level_id == g.current_level_id
        target_level_id == IF direction = "Up" THEN current_level_id - 1
                           ELSE current_level_id + 1
        changed == change_to_level(w, g, target_level_id)
    IN  IF direction = "Up" /\ current_level_id = 0
        THEN [ result |-> "Ok(false)",
               game |-> [ g EXCEPT !.completion_state = "EscapedEarly" ] ]
        ELSE IF direction = "Down" /\ current_level_id >= NumFloors
        THEN [ result |-> "Ok(false)",
               game |-> [ g EXCEPT !.completion_state = "CompletedDungeon" ] ]
        ELSE IF changed.result = "Ok"
        THEN [ result |-> "Ok(true)", game |-> changed.game ]
        ELSE changed

\* Everything a GameState call leaves alone.
GeneratorUnchanged ==
    UNCHANGED << generator, config, planVars, floor_id, level, roomVars, carveVars, world,
                 checkVars >>

\* GameState::new_with_complete_dungeon: the game on the world just generated.
NewGame ==
    /\ pc = "world_done"
    /\ game' = GameNew(world)
    /\ prev_game' = GameNew(world)
    /\ call' = [ NoCall EXCEPT !.op = "new_with_complete_dungeon" ]
    /\ pc' = "playing"
    /\ result' = "Ok"
    /\ GeneratorUnchanged

InitializePlayer ==
    /\ pc = "playing"
    /\ game.player_id = None
    /\ PlayerEntity \notin DOMAIN game.entities
    /\ \E position \in PlayerStartDraws :
          game' = initialize_player(game, PlayerEntity, position)
    /\ prev_game' = game
    /\ call' = [ NoCall EXCEPT !.op = "initialize_player" ]
    /\ result' = "Ok"
    /\ UNCHANGED pc
    /\ GeneratorUnchanged

AddEntityOf(ids) ==
    /\ pc = "playing"
    /\ \E entity_id \in ids, position \in PlayerStartDraws :
          /\ entity_id \notin DOMAIN game.entities
          /\ game' = add_entity(game, entity_id, position)
    /\ prev_game' = game
    /\ call' = [ NoCall EXCEPT !.op = "add_entity" ]
    /\ result' = "Ok"
    /\ UNCHANGED pc
    /\ GeneratorUnchanged

\* add_entity for the player entity.
AddEntity == AddEntityOf({ PlayerEntity })

SetPlayerId ==
    /\ pc = "playing"
    /\ game.player_id = None
    /\ game' = [ game EXCEPT !.player_id = Some(PlayerEntity) ]
    /\ prev_game' = game
    /\ call' = [ NoCall EXCEPT !.op = "set_player_id" ]
    /\ result' = "Ok"
    /\ UNCHANGED pc
    /\ GeneratorUnchanged

SetEntityPositionOf(ids) ==
    /\ pc = "playing"
    /\ \E entity_id \in ids, new_position \in PlayerStartDraws :
          /\ game' = set_entity_position(game, entity_id, new_position).game
          /\ result' = set_entity_position(game, entity_id, new_position).result
    /\ prev_game' = game
    /\ call' = [ NoCall EXCEPT !.op = "set_entity_position" ]
    /\ UNCHANGED pc
    /\ GeneratorUnchanged

\* set_entity_position for the player entity.
SetEntityPosition == SetEntityPositionOf({ PlayerEntity })

UseStairs ==
    /\ pc = "playing"
    /\ Cardinality(DOMAIN world) # 1
    /\ \E direction \in {"Up", "Down"} :
          /\ game' = use_stairs(world, game, direction).game
          /\ result' = use_stairs(world, game, direction).result
          /\ call' = [ NoCall EXCEPT !.op = "use_stairs", !.direction = direction ]
    /\ prev_game' = game
    /\ UNCHANGED pc
    /\ GeneratorUnchanged

ChangeToLevel ==
    /\ pc = "playing"
    /\ Cardinality(DOMAIN world) # 1
    /\ \E level_id \in LevelIdDraws :
          /\ game' = change_to_level(world, game, level_id).game
          /\ result' = change_to_level(world, game, level_id).result
          /\ call' = [ NoCall EXCEPT !.op = "change_to_level", !.level_id = level_id ]
    /\ prev_game' = game
    /\ UNCHANGED pc
    /\ GeneratorUnchanged

Next ==
    \/ PlanDraw \/ PlanResample \/ PlanAccept \/ PlanLastFloor \/ PlanReturn
    \/ FloorBegin \/ PlaceRoom \/ PlaceRoomsDone
    \/ CarveKeep \/ CarveRevert
    \/ FloorFinish \/ AddLevel
    \/ SingleBegin \/ SinglePlaceRoom \/ SingleRoomsDone \/ SingleFinish
    \/ NewGame \/ InitializePlayer \/ AddEntity \/ SetPlayerId
    \/ UseStairs \/ ChangeToLevel \/ SetEntityPosition

Spec == Init /\ [][Next]_vars

\* =================================================================
\* Properties of the generator (specification Spec)
\* =================================================================

\* A level has been returned by generate_floor_with_stairs or by generate.
LevelReturned == pc \in {"floor_done", "single_done"}

\* C1: in every level the generator returns (each floor of generate_world and
\* the level of the single-floor generate) has_path leads from the spawn point
\* to the up stairs and to the down stairs, whenever that stair exists.
C1_SpawnReachesStairs ==
    LevelReturned =>
        /\ IsSome(level.stairs_up_position) =>
               has_path(level, level.player_spawn, Unwrap(level.stairs_up_position))
        /\ IsSome(level.stairs_down_position) =>
               has_path(level, level.player_spawn, Unwrap(level.stairs_down_position))

\* A returned level with two distinct stairs on which walls were carved.
C1_Witness ==
    /\ LevelReturned
    /\ IsSome(level.stairs_up_position)
    /\ IsSome(level.stairs_down_position)
    /\ level.stairs_up_position # level.stairs_down_position
    /\ walls_placed > 0

\* C2: after generate_world succeeds the world holds exactly the levels
\* 0..LastFloor; level 0 has no up stairs, the last level no down stairs, every
\* other level has both; and the down stairs of level k are at the position of
\* the up stairs of level k+1.
C2_WorldStairsAligned ==
    pc = "world_done" =>
        /\ DOMAIN world = 0 .. LastFloor
        /\ \A k \in 0 .. LastFloor :
              /\ world[k].id = k
              /\ IsSome(world[k].stairs_up_position) <=> k > 0
              /\ IsSome(world[k].stairs_down_position) <=> k < LastFloor
        /\ \A k \in 0 .. LastFloor - 1 :
              world[k].stairs_down_position = world[k + 1].stairs_up_position

C2_Witness == pc = "world_done" /\ result = "Ok" /\ floor_id = NumFloors

\* C3: generate_stair_layout returns one entry per floor 0..LastFloor; entry 0
\* has up = None and down = Some, the last entry up = Some and down = None, the
\* entries between have both, and entry k's down equals entry k+1's up.
C3_StairLayout ==
    (generator.generate_all_floors /\ pc \notin {"plan", "plan_retry"}) =>
        /\ DOMAIN stair_positions = 0 .. LastFloor
        /\ \A k \in 0 .. LastFloor :
              /\ IsSome(stair_positions[k][1]) <=> k > 0
              /\ IsSome(stair_positions[k][2]) <=> k < LastFloor
        /\ \A k \in 0 .. LastFloor - 1 :
              stair_positions[k][2] = stair_positions[k + 1][1]

\* The planner has just returned a layout with two different stair positions.
C3_Witness ==
    /\ pc = "floors"
    /\ floor_id = 0
    /\ DOMAIN stair_positions = 0 .. LastFloor
    /\ stair_positions[0][2] # stair_positions[1][2]

\* C4: during progressive wall placement, after every iteration (wall kept or
\* reverted) and when the loop ends, has_path holds between the centers of
\* every pair of placed rooms.
C4_RoomsStayConnected ==
    pc = "carve" =>
        \A i \in 1 .. Len(rooms), j \in 1 .. Len(rooms) :
            has_path(level, center(rooms[i]), center(rooms[j]))

\* Carving has both kept a wall and reverted one, with rooms at two places.
C4_Witness ==
    /\ pc = "carve"
    /\ walls_placed > 0
    /\ connectivity_failures > 0
    /\ \E i \in 1 .. Len(rooms), j \in 1 .. Len(rooms) : center(rooms[i]) # center(rooms[j])

\* C5: in every level of the world returned by generate_world every passable
\* tile is reachable from the spawn point (no disconnected pocket remains).
\* generate_floor_with_stairs has its fill_unreachable_areas step commented
\* out, so carving can leave a pocket: the property is violated.
C5_NoUnreachablePocket ==
    pc = "floor_done" =>
        \A p \in DOMAIN level.tiles :
            is_passable(level.tiles[p]) =>
                p \in flood_fill_reachable(level, level.player_spawn)

\* -----------------------------------------------------------------
\* GameState: stairs and level changes
\* -----------------------------------------------------------------

\* The last call was use_stairs(direction).
UsedStairs(direction) == pc = "playing" /\ call.op = "use_stairs" /\ call.direction = direction

\* The player's entity is present: player_id names an entity of the game.
PlayerPresent(g) == IsSome(get_player(g))

\* C13: in the pre-generated world, use_stairs(Down) on the deepest floor
\* returns Ok(false), sets the completion state to CompletedDungeon and leaves
\* the current floor where it was.
C13_DeepestFloorCompletes ==
    (UsedStairs("Down") /\ prev_game.current_level_id = LastFloor) =>
        /\ result = "Ok(false)"
        /\ game.completion_state = "CompletedDungeon"
        /\ game.current_level_id = LastFloor

\* C14: use_stairs(Up) on floor 0 returns Ok(false), sets the completion state
\* to EscapedEarly and changes neither the current floor nor the player's
\* position.
C14_EscapeOnFloorZero ==
    (UsedStairs("Up") /\ prev_game.current_level_id = 0) =>
        /\ result = "Ok(false)"
        /\ game.completion_state = "EscapedEarly"
        /\ game.current_level_id = 0
        /\ get_player(game) = get_player(prev_game)
        /\ game.entities = prev_game.entities

C14_Witness ==
    /\ UsedStairs("Up")
    /\ prev_game.current_level_id = 0
    /\ PlayerPresent(prev_game)
    /\ prev_game.completion_state = "Playing"
    /\ game.completion_state = "EscapedEarly"

\* C15: whenever use_stairs(direction) returns Ok(true), the current floor is
\* the previous floor minus 1 for Up and plus 1 for Down.
C15_OkTrueMeansMoved ==
    (pc = "playing" /\ call.op = "use_stairs" /\ result = "Ok(true)") =>
        game.current_level_id =
            IF call.direction = "Up" THEN prev_game.current_level_id - 1
            ELSE prev_game.current_level_id + 1

\* The last call changed the floor successfully.
FloorChanged ==
    /\ pc = "playing"
    /\ \/ call.op = "use_stairs" /\ result = "Ok(true)"
       \/ call.op = "change_to_level" /\ result = "Ok"

\* C16: after a successful floor change with the player present, the player
\* stands on the new floor's spawn point and is registered on the new floor;
\* after descending from floor k the position is floor k+1's up stairs, which
\* is floor k's down stairs.
C16_PlayerArrivesAtSpawn ==
    (FloorChanged /\ PlayerPresent(prev_game)) =>
        /\ get_player(game) = Some(world[game.current_level_id].player_spawn)
        /\ Unwrap(game.player_id) \in game.level_entities[game.current_level_id]
        /\ UsedStairs("Down") =>
              /\ game.current_level_id = prev_game.current_level_id + 1
              /\ get_player(game) = world[game.current_level_id].stairs_up_position
              /\ get_player(game) = world[prev_game.current_level_id].stairs_down_position

C16_Witness ==
    /\ FloorChanged
    /\ PlayerPresent(prev_game)
    /\ UsedStairs("Down")
    /\ prev_game.current_level_id = 1
    /\ get_player(prev_game) # get_player(game)

\* C17: in the pre-generated world change_to_level(k) succeeds for every floor
\* k of the world and fails with InvalidState for every k past the last floor;
\* on the error the current floor, the player's position, the position index
\* and the statistics are unchanged.
C17_ChangeToLevelRange ==
    (pc = "playing" /\ call.op = "change_to_level") =>
        /\ call.level_id \in 0 .. LastFloor => result = "Ok"
        /\ call.level_id >= NumFloors =>
              /\ result = "InvalidState"
              /\ game.current_level_id = prev_game.current_level_id
              /\ get_player(game) = get_player(prev_game)
              /\ game.position_index = prev_game.position_index
              /\ game.statistics = prev_game.statistics

C17_Witness ==
    /\ pc = "playing"
    /\ call.op = "change_to_level"
    /\ call.level_id > NumFloors
    /\ result = "InvalidState"
    /\ PlayerPresent(prev_game)
    /\ prev_game.current_level_id = 1
    /\ prev_game.statistics.max_depth_reached = LastFloor

\* C18: whenever a level the generator returns has both up stairs and down
\* stairs, the two are at different positions.
C18_StairsDiffer ==
    (LevelReturned /\ IsSome(level.stairs_up_position) /\ IsSome(level.stairs_down_position)) =>
        level.stairs_up_position # level.stairs_down_position


\* C19: every level generate_world adds to the world has its spawn position
\* inside the grid on a passable tile: the position of the up stairs on the
\* floors below floor 0, the center of the first room on floor 0.
C19_SpawnPassable ==
    pc = "floor_done" =>
        /\ is_valid_position(level, level.player_spawn)
        /\ is_passable(get_tile(level, level.player_spawn))
        /\ level.id > 0 => Some(level.player_spawn) = level.stairs_up_position
        /\ level.id = 0 => level.player_spawn = center(rooms[1])

C19_Witness ==
    /\ pc = "floor_done"
    /\ level.id = 0
    /\ walls_placed > 0
    /\ level.player_spawn = center(rooms[1])
    /\ \E p \in cardinal_adjacent_positions(level.player_spawn) :
          is_valid_position(level, p) /\ get_tile(level, p) = "Wall"

\* The tiles an iteration of progressive_wall_placement changed.
CarveChanged == { p \in DOMAIN level.tiles : level'.tiles[p] # level.tiles[p] }

\* C23: an iteration of progressive_wall_placement changes at most one tile,
\* a Floor tile outside every room and off the outer border, into Wall; tiles
\* inside rooms, border tiles and stair tiles stay as they were, and an
\* iteration that counts a failure leaves the level exactly as it was.
C23_CarveFrame ==
    [][ (pc = "carve" /\ pc' = "carve") =>
          /\ DOMAIN level'.tiles = DOMAIN level.tiles
          /\ Cardinality(CarveChanged) <= 1
          /\ \A p \in CarveChanged :
                /\ level.tiles[p] = "Floor"
                /\ level'.tiles[p] = "Wall"
                /\ ~is_position_in_any_room(p, rooms)
                /\ ~OnBorder(level, p)
          /\ connectivity_failures' # connectivity_failures => level' = level
          /\ rooms' = rooms ]_vars

C23_Witness ==
    /\ pc = "carve"
    /\ walls_placed > 0
    /\ connectivity_failures > 0
    /\ \E p \in DOMAIN level.tiles : IsStairs(level.tiles[p])
    /\ \E p \in DOMAIN level.tiles :
          level.tiles[p] = "Floor" /\ is_position_in_any_room(p, rooms)

\* C28: in every level generate_world or the single-floor generate returns,
\* every tile of the outer border (x = 0, y = 0, x = width - 1, y = height - 1)
\* is Wall.
C28_BorderIsWall ==
    LevelReturned =>
        \A p \in DOMAIN level.tiles : OnBorder(level, p) => level.tiles[p] = "Wall"

C28_Witness ==
    /\ LevelReturned
    /\ \E p \in DOMAIN level.tiles :
          /\ IsStairs(level.tiles[p])
          /\ \E q \in cardinal_adjacent_positions(p) :
                is_valid_position(level, q) /\ OnBorder(level, q)
    /\ walls_placed > 0

\* The candidate of the re-sampling loop is closer to the floor's up stairs
\* than the minimum separation.
CandidateTooClose ==
    manhattan_distance(candidate_pos, Unwrap(PlanStairsUp)) < MinStairSeparation

\* C29: in generate_stair_layout the down-stair candidate of a floor with up
\* stairs is re-sampled only while it is closer to the up stairs than the
\* minimum separation, and at most 20 times; a candidate closer than that is
\* returned only after all 20 re-samples were used; the planner returns no
\* error.
C29_ResampleBudget ==
    /\ [](pc \in {"plan", "plan_retry"} =>
            /\ plan_attempts <= 20
            /\ result # "GenerationFailed"
            /\ pc = "plan_retry" => floor_id \in 1 .. LastFloor - 1)
    /\ [][ /\ (pc = "plan_retry" /\ pc' = "plan_retry") =>
                /\ CandidateTooClose
                /\ plan_attempts < 20
                /\ plan_attempts' = plan_attempts + 1
           /\ (pc = "plan_retry" /\ pc' = "plan") =>
                /\ stair_positions'[floor_id] = << PlanStairsUp, Some(candidate_pos) >>
                /\ CandidateTooClose => plan_attempts = 20
           /\ (pc = "plan" /\ pc' # "plan_retry") =>
                (pc' \in {"plan", "floors"} /\ result' = result) ]_vars

C29_Witness ==
    /\ pc = "plan_retry"
    /\ plan_attempts = 20
    /\ CandidateTooClose
    /\ floor_id >= 1

\* =================================================================
\* create_stair_connection on its own (specification SpecConn)
\* =================================================================

\* The positions strictly inside the 1-tile border of a w x h grid.
Interior(w, h) == { p \in Positions(w, h) : p[1] > 0 /\ p[2] > 0 /\ p[1] < w - 1 /\ p[2] < h - 1 }

\* The grids the generator hands to create_stair_connection: a Wall border,
\* Wall or Floor inside, StairsUp at a and StairsDown at b (both inside the
\* border; the down stairs are stamped last).
ConnLevels(w, h) ==
    { [ LevelNew(0, w, h) EXCEPT
          !.tiles = [ p \in Positions(w, h) |->
                        IF p = ab[2] THEN "StairsDown"
                        ELSE IF p = ab[1] THEN "StairsUp"
                        ELSE IF p \in floors THEN "Floor" ELSE "Wall" ],
          !.player_spawn = ab[1],
          !.stairs_up_position = Some(ab[1]),
          !.stairs_down_position = Some(ab[2]) ] :
        floors \in SUBSET Interior(w, h),
        ab \in Interior(w, h) \X Interior(w, h) }

InitConn ==
    /\ generator = GeneratorNew
    /\ config = GenerationConfig
    /\ pc = "connect"
    /\ LocalsIdle
    /\ level \in ConnLevels(ConnWidth, ConnHeight)
    /\ endpoints = << Unwrap(level.stairs_up_position), Unwrap(level.stairs_down_position) >>
    /\ before = level
    /\ world = WorldNew
    /\ result = "none"

\* The call create_stair_connection(level, start, end).
Connect ==
    /\ pc = "connect"
    /\ before' = level
    /\ level' = create_stair_connection(level, endpoints[1], endpoints[2])
    /\ result' = "Ok"
    /\ pc' = "connected"
    /\ UNCHANGED << generator, config, planVars, floor_id, roomVars, carveVars, world,
                    endpoints, single_run, search, gameVars >>

NextConn == Connect

SpecConn == InitConn /\ [][NextConn]_vars

\* C9: for a grid of Wall, Floor and stair tiles and two stair positions
\* strictly inside the border, has_path holds between the two positions after
\* create_stair_connection.
C9_ConnectionGivesPath ==
    pc = "connected" => has_path(level, endpoints[1], endpoints[2])

\* The endpoints were not connected before and the line has a diagonal step.
C9_Witness ==
    /\ pc = "connected"
    /\ ~has_path(before, endpoints[1], endpoints[2])
    /\ endpoints[1][1] # endpoints[2][1]
    /\ endpoints[1][2] # endpoints[2][2]

\* The points of the line between the endpoints and their cardinal neighbours.
LineAndBuffer ==
    LET line == SeqRange(line_between_points(endpoints[1], endpoints[2]))
    IN  line \cup UNION { cardinal_adjacent_positions(q) : q \in line }

ArbLevels(w, h) ==
    { [ LevelNew(0, w, h) EXCEPT !.tiles = t ] : t \in [ Positions(w, h) -> TileTypes ] }

InitValidate ==
    /\ generator = GeneratorNew
    /\ config = GenerationConfig
    /\ pc = "validate"
    /\ LocalsIdle
    /\ \E w \in 1 .. ArbWidth, h \in 1 .. ArbHeight : level \in ArbLevels(w, h)
    /\ endpoints = <<NoPos, NoPos>>
    /\ before = NoLevel
    /\ world = WorldNew
    /\ result = "none"

\* The call validate(level).
Validate ==
    /\ pc = "validate"
    /\ result' = validate_level(level)
    /\ pc' = "validated"
    /\ UNCHANGED << generator, config, planVars, floor_id, level, roomVars, carveVars, world,
                    checkVars, gameVars >>

NextValidate == Validate

SpecValidate == InitValidate /\ [][NextValidate]_vars

HasFloorTile(l) == \E p \in DOMAIN l.tiles : l.tiles[p] = "Floor"

\* C8: validate(level) returns Ok exactly when the grid has a tile of type
\* Floor and a GenerationFailed error exactly when it has none; other passable
\* tile types do not count.
C8_ValidateIffFloor ==
    pc = "validated" =>
        /\ result \in {"Ok", "GenerationFailed"}
        /\ result = "Ok" <=> HasFloorTile(level)
        /\ result = "GenerationFailed" <=> ~HasFloorTile(level)

\* A level with a passable tile and no Floor tile was rejected.
C8_Witness ==
    /\ pc = "validated"
    /\ result = "GenerationFailed"
    /\ \E p \in DOMAIN level.tiles : is_passable(level.tiles[p])

\* =================================================================
\* validate_world on its own (specification SpecWorld)
\* =================================================================

\* The stair positions a level of a checked world may record.
WorldStairOptions == { None, Some(<<0, 0>>), Some(<<1, 0>>) }

\* A one-row level of a checked world: first tile t, recorded stairs up, down.
WorldLevel(id, t, up, down) ==
    [ LevelNew(id, 2, 1) EXCEPT
        !.tiles = [ p \in Positions(2, 1) |-> IF p = <<0, 0>> THEN t ELSE "Wall" ],
        !.stairs_up_position = up,
        !.stairs_down_position = down ]

\* The worlds with levels 0..n: each level with or without a Floor tile and
\* with any recorded stair positions.
ArbWorlds(n) ==
    { [ i \in 0 .. n |-> WorldLevel(i, t[i], up[i], down[i]) ] :
        t \in [ 0 .. n -> {"Wall", "Floor"} ],
        up \in [ 0 .. n -> WorldStairOptions ],
        down \in [ 0 .. n -> WorldStairOptions ] }

InitWorld ==
    /\ generator = GeneratorNew
    /\ config = GenerationConfig
    /\ pc = "validate_world"
    /\ LocalsIdle
    /\ level = NoLevel
    /\ endpoints = <<NoPos, NoPos>>
    /\ before = NoLevel
    /\ \E n \in 0 .. LastFloor : world \in ArbWorlds(n)
    /\ result = "none"

\* The call validate_world(world, config).
ValidateWorld ==
    /\ pc = "validate_world"
    /\ result' = validate_world(world)
    /\ pc' = "world_validated"
    /\ UNCHANGED << generator, config, planVars, floor_id, level, roomVars, carveVars, world,
                    checkVars, gameVars >>

NextWorld == ValidateWorld

SpecWorld == InitWorld /\ [][NextWorld]_vars

\* C7: validate_world succeeds only if for every adjacent pair of floors the
\* down stairs of floor k and the up stairs of floor k+1 are equal as optional
\* values; a world in which a pair differs gets GenerationFailed. The code
\* compares a pair only when both positions are Some, so a world with
\* None against Some passes: the property is violated.
C7_ValidateWorldRejectsMismatch ==
    (pc = "world_validated" /\ DOMAIN world = 0 .. LastFloor) =>
        /\ result = "Ok" =>
               \A k \in 0 .. LastFloor - 1 :
                   world[k].stairs_down_position = world[k + 1].stairs_up_position
        /\ (\E k \in 0 .. LastFloor - 1 :
               world[k].stairs_down_position # world[k + 1].stairs_up_position)
               => result = "GenerationFailed"

\* =================================================================
\* create_room_around_position on its own (specification SpecAround)
\* =================================================================

\* A configuration whose largest room still leaves the level's border free.
AroundConfig ==
    [ min_room_size |-> RoomSizeMin, max_room_size |-> AroundSizeMax,
      min_rooms |-> RoomsMin, max_rooms |-> RoomsMax ]

\* The call is about to be made for a target position anywhere in the level;
\* candidate_pos holds the target.
InitAround ==
    /\ generator = GeneratorNew
    /\ config = AroundConfig
    /\ pc = "around"
    /\ GameIdle
    /\ single_run = NoRun
    /\ search = NoSearch
    /\ stair_positions = <<>>
    /\ floor_id = 0
    /\ candidate_pos \in Positions(AroundWidth, AroundHeight)
    /\ plan_attempts = 0
    /\ rooms = <<>>
    /\ room_target = 0
    /\ room_attempts = 0
    /\ available_positions = {}
    /\ connectivity_failures = 0
    /\ walls_placed = 0
    /\ max_walls_to_place = 0
    /\ level = LevelNew(0, AroundWidth, AroundHeight)
    /\ endpoints = <<NoPos, NoPos>>
    /\ before = NoLevel
    /\ world = WorldNew
    /\ result = "none"

\* The call create_room_around_position(room_id, center, config, rng, level)
\* with the drawn room_width and room_height.
RoomAround ==
    /\ pc = "around"
    /\ \E room_width \in RoomSizeDraws(config), room_height \in RoomSizeDraws(config) :
          rooms' = << create_room_around_position(Len(rooms), candidate_pos,
                                                  room_width, room_height, level) >>
    /\ result' = "Ok"
    /\ pc' = "around_done"
    /\ UNCHANGED << generator, config, planVars, floor_id, level, room_target, room_attempts,
                    carveVars, world, checkVars, gameVars >>

NextAround == RoomAround

SpecAround == InitAround /\ [][NextAround]_vars

\* C11: for every target position in the level and every room size of the
\* configured range the room returned by create_room_around_position is within
\* the bounds room_fits_in_level accepts (top_left >= 1 and
\* top_left + size < level size - 1). The code clamps top_left to
\* level size - size - 1, so a room near the far edges ends exactly at
\* level size - 1: the property is violated.
C11_RoomAroundFits ==
    pc = "around_done" => room_fits_in_level(level, rooms[1])

\* The target is a position the planner can produce.
PlannerPosition(p, w, h) ==
    /\ p[1] >= StairMargin /\ p[1] <= w - StairMargin - 1
    /\ p[2] >= StairMargin /\ p[2] <= h - StairMargin - 1

\* C12: for every stair position the planner can produce and every room width
\* and height of the configured range, the room built by
\* create_room_around_position contains the stair position.
C12_RoomContainsStair ==
    (pc = "around_done" /\ PlannerPosition(candidate_pos, level.width, level.height)) =>
        contains(rooms[1], candidate_pos)

\* A room around a planner position that the clamping moved off its center.
C12_Witness ==
    /\ pc = "around_done"
    /\ PlannerPosition(candidate_pos, level.width, level.height)
    /\ center(rooms[1]) # candidate_pos
    /\ contains(rooms[1], candidate_pos)

\* =================================================================
\* progressive_wall_placement of new() and of for_testing() side by side
\* (specification SpecBudget)
\* =================================================================

\* The level of the comparison: a corridor one tile high, long enough for the
\* failure budget of for_testing() to run out.
BudgetWidth == 56
BudgetHeight == 3

\* Room 0 at the corridor's left end, room 1 at x.
BudgetRooms(x) == << RoomNew(0, <<1, 1>>, 1, 1), RoomNew(1, <<x, 1>>, 1, 1) >>

\* The places of room 1: next to room 0, and near the right end with one or
\* two tiles of corridor behind it.
BudgetRoomDraws == { 3, BudgetWidth - 4, BudgetWidth - 3 }

\* The loop of progressive_wall_placement continues for the run.
RunContinues(run) ==
    CarveContinues(run.generator, run.connectivity_failures, run.available_positions,
                   run.walls_placed, run.max_walls_to_place)

\* One iteration of the loop for the position removed from available_positions.
progressive_wall_step(run, rs, pos) ==
    LET walled == set_tile(run.level, pos, "Wall")
    IN  IF all_rooms_connected(walled, rs)
        THEN [ run EXCEPT !.level = walled,
                          !.available_positions = @ \ {pos},
                          !.walls_placed = @ + 1 ]
        ELSE [ run EXCEPT !.available_positions = @ \ {pos},
                          !.connectivity_failures = @ + 1 ]

\* p comes before q in the order get_non_room_floor_positions pushes them.
ScanBefore(p, q) == p[2] < q[2] \/ (p[2] = q[2] /\ p[1] < q[1])

\* rng.gen_range(0..available_positions.len()): the two ends of the range,
\* that is the first and the last position of the list.
PickDraws(avail) ==
    { p \in avail : \/ \A q \in avail \ {p} : ScanBefore(p, q)
                    \/ \A q \in avail \ {p} : ScanBefore(q, p) }

\* The run of new(), held in the variables of the generator.
MultiRun ==
    [ generator |-> generator, level |-> level,
      available_positions |-> available_positions,
      connectivity_failures |-> connectivity_failures,
      walls_placed |-> walls_placed,
      max_walls_to_place |-> max_walls_to_place ]

WallCount(l) == Cardinality({ p \in DOMAIN l.tiles : l.tiles[p] = "Wall" })

\* Both generators initialize identical levels with the same rooms.
InitBudget ==
    /\ generator = GeneratorNew
    /\ config = GenerationConfig
    /\ pc = "budget"
    /\ GameIdle
    /\ search = NoSearch
    /\ stair_positions = <<>>
    /\ floor_id = 0
    /\ candidate_pos = NoPos
    /\ plan_attempts = 0
    /\ room_target = 0
    /\ room_attempts = 0
    /\ \E x \in BudgetRoomDraws :
          LET l == initialize_level_with_rooms(LevelNew(0, BudgetWidth, BudgetHeight),
                                               BudgetRooms(x))
          IN  /\ rooms = BudgetRooms(x)
              /\ level = l
              /\ available_positions = RunNew(GeneratorNew, l, rooms).available_positions
              /\ max_walls_to_place = RunNew(GeneratorNew, l, rooms).max_walls_to_place
              /\ single_run = RunNew(GeneratorForTesting, l, rooms)
    /\ connectivity_failures = 0
    /\ walls_placed = 0
    /\ endpoints = <<NoPos, NoPos>>
    /\ before = NoLevel
    /\ world = WorldNew
    /\ result = "none"

\* The next index of the random sequence: each run whose loop continues does
\* one iteration with it.
BudgetStep ==
    /\ pc = "budget"
    /\ RunContinues(MultiRun) \/ RunContinues(single_run)
    /\ \E pos \in PickDraws(IF RunContinues(MultiRun) THEN available_positions
                            ELSE single_run.available_positions) :
          LET multi == IF RunContinues(MultiRun)
                       THEN progressive_wall_step(MultiRun, rooms, pos) ELSE MultiRun
          IN  /\ level' = multi.level
              /\ available_positions' = multi.available_positions
              /\ connectivity_failures' = multi.connectivity_failures
              /\ walls_placed' = multi.walls_placed
              /\ single_run' = IF RunContinues(single_run)
                               THEN progressive_wall_step(single_run, rooms, pos)
                               ELSE single_run
    /\ UNCHANGED << pc, generator, config, planVars, floor_id, roomVars, max_walls_to_place,
                    world, result, before, endpoints, search, gameVars >>

\* Both loops are left.
BudgetDone ==
    /\ pc = "budget"
    /\ ~RunContinues(MultiRun)
    /\ ~RunContinues(single_run)
    /\ pc' = "budget_done"
    /\ UNCHANGED << generator, config, planVars, floor_id, level, roomVars, carveVars,
                    world, result, checkVars, gameVars >>

NextBudget == BudgetStep \/ BudgetDone

SpecBudget == InitBudget /\ [][NextBudget]_vars

\* C20: from identical grids, rooms and random sequences, the wall placement of
\* new() (budget 1000, halved) leaves no more Wall tiles than the wall
\* placement of for_testing() (budget 50).
C20_MultiFloorNoMoreWalls ==
    pc = "budget_done" => WallCount(level) <= WallCount(single_run.level)

\* =================================================================
\* AutoexploreState::find_path on its own (specification SpecPath)
\* =================================================================

PathWidth == 3
PathHeight == 3

\* The grids find_path is run on: every tile Wall or Floor.
PathLevels(w, h) ==
    { [ LevelNew(0, w, h) EXCEPT !.tiles = t ] : t \in [ Positions(w, h) -> {"Wall", "Floor"} ] }

\* The game states it is run on: no entity, or one entity at the grid's
\* second tile of the diagonal.
PathGames ==
    { GameNew(WorldNew), add_entity(GameNew(WorldNew), PlayerEntity, <<1, 1>>) }

get_entity_at_position(g, position) ==
    IF position \in DOMAIN g.position_index /\ g.position_index[position] # << >>
    THEN Some(Head(g.position_index[position])) ELSE None

\* The square of euclidean_distance.
DistanceSquared(a, b) == (a[1] - b[1]) * (a[1] - b[1]) + (a[2] - b[2]) * (a[2] - b[2])

\* g1 + sqrt(a) < g2 + sqrt(b), decided in the integers.
ScoreLess(g1, a, g2, b) ==
    LET d == g2 - g1
    IN  IF a <= b
        THEN IF d > 0 THEN TRUE
             ELSE IF d = 0 THEN a < b
             ELSE LET r == b - d * d - a IN r > 0 /\ r * r > 4 * d * d * a
        ELSE IF d <= 0 THEN FALSE
             ELSE LET r == a - d * d - b IN r < 0 \/ r * r < 4 * d * d * b

\* The f_score a node was pushed with is smaller than the other's.
NodeLess(n, m, goal) ==
    ScoreLess(n.g, DistanceSquared(n.position, goal), m.g, DistanceSquared(m.position, goal))

\* open_set.pop(): a node of least f_score; the heap decides between equals.
PopDraws(srch) ==
    { n \in srch.open_set : \A m \in srch.open_set : ~NodeLess(m, n, srch.goal) }

\* The neighbors of current that the loop body relaxes.
RelaxedNeighbors(l, g, srch, current) ==
    { neighbor \in adjacent_positions(current) :
        /\ is_valid_position(l, neighbor)
        /\ is_passable(get_tile(l, neighbor))
        /\ ~ (neighbor # srch.goal /\ IsSome(get_entity_at_position(g, neighbor)))
        /\ \/ neighbor \notin DOMAIN srch.g_score
           \/ srch.g_score[current] + 1 < srch.g_score[neighbor] }

\* The path read back from came_from, goal last.
RECURSIVE ReconstructPath(_, _)
ReconstructPath(came_from, current_pos) ==
    IF current_pos \in DOMAIN came_from
    THEN Append(ReconstructPath(came_from, came_from[current_pos]), current_pos)
    ELSE << >>

InitPath ==
    /\ generator = GeneratorNew
    /\ config = GenerationConfig
    /\ pc = "find_path"
    /\ game \in PathGames
    /\ prev_game = GameNew(WorldNew)
    /\ call = NoCall
    /\ single_run = NoRun
    /\ stair_positions = <<>>
    /\ floor_id = 0
    /\ candidate_pos = NoPos
    /\ plan_attempts = 0
    /\ rooms = <<>>
    /\ room_target = 0
    /\ room_attempts = 0
    /\ available_positions = {}
    /\ connectivity_failures = 0
    /\ walls_placed = 0
    /\ max_walls_to_place = 0
    /\ level \in PathLevels(PathWidth, PathHeight)
    /\ \E start \in Positions(PathWidth, PathHeight), goal \in Positions(PathWidth, PathHeight) :
          search = SearchNew(start, goal)
    /\ endpoints = <<NoPos, NoPos>>
    /\ before = NoLevel
    /\ world = WorldNew
    /\ result = "none"

PathUnchanged ==
    UNCHANGED << generator, config, planVars, floor_id, level, roomVars, carveVars, world,
                 before, endpoints, single_run, gameVars >>

\* An iteration that pops a node other than the goal and relaxes its neighbors.
PathExpand ==
    /\ pc = "find_path"
    /\ \E node \in PopDraws(search) :
          LET current == node.position
              relaxed == RelaxedNeighbors(level, game, search, current)
              tentative_g_score == search.g_score[current] + 1
          IN  /\ current # search.goal
              /\ search' =
                   [ search EXCEPT
                       !.open_set = (@ \ {node}) \cup
                           { [ position |-> n, g |-> tentative_g_score ] : n \in relaxed },
                       !.came_from = [ p \in DOMAIN @ \cup relaxed |->
                                         IF p \in relaxed THEN current ELSE @[p] ],
                       !.g_score = [ p \in DOMAIN @ \cup relaxed |->
                                       IF p \in relaxed THEN tentative_g_score ELSE @[p] ] ]
    /\ UNCHANGED << pc, result >>
    /\ PathUnchanged

\* The goal is popped: the path is reconstructed and returned.
PathFound ==
    /\ pc = "find_path"
    /\ \E node \in PopDraws(search) : node.position = search.goal
    /\ search' = [ search EXCEPT
                     !.path = Some(ReconstructPath(search.came_from, search.goal)) ]
    /\ pc' = "path_done"
    /\ result' = "Ok"
    /\ PathUnchanged

\* The open set is empty: Ok(None).
PathNone ==
    /\ pc = "find_path"
    /\ search.open_set = {}
    /\ search' = [ search EXCEPT !.path = None ]
    /\ pc' = "path_done"
    /\ result' = "Ok"
    /\ PathUnchanged

NextPath == PathExpand \/ PathFound \/ PathNone

SpecPath == InitPath /\ [][NextPath]_vars

\* C21: a path find_path returns for start # goal is non-empty, ends at goal,
\* and each of its steps, from start to the first position and between
\* consecutive positions, goes to a cardinal-adjacent tile that is in bounds
\* and passable.
C21_PathStepsCardinal ==
    (pc = "path_done" /\ IsSome(search.path) /\ search.start # search.goal) =>
        LET path == Unwrap(search.path)
            from(i) == IF i = 1 THEN search.start ELSE path[i - 1]
        IN  /\ path # << >>
            /\ path[Len(path)] = search.goal
            /\ \A i \in 1 .. Len(path) :
                  /\ path[i] \in cardinal_adjacent_positions(from(i))
                  /\ is_valid_position(level, path[i])
                  /\ is_passable(get_tile(level, path[i]))

\* =================================================================
\* has_path on its own (specification SpecHasPath)
\* =================================================================

InitHasPath ==
    /\ generator = GeneratorNew
    /\ config = GenerationConfig
    /\ pc = "has_path"
    /\ LocalsIdle
    /\ level \in PathLevels(PathWidth, PathHeight)
    /\ endpoints \in Positions(PathWidth, PathHeight) \X Positions(PathWidth, PathHeight)
    /\ before = NoLevel
    /\ world = WorldNew
    /\ result = "none"

\* The call has_path(level, start, goal).
HasPath ==
    /\ pc = "has_path"
    /\ result' = IF has_path(level, endpoints[1], endpoints[2]) THEN "Ok(true)" ELSE "Ok(false)"
    /\ pc' = "has_path_done"
    /\ UNCHANGED << generator, config, planVars, floor_id, level, roomVars, carveVars, world,
                    checkVars, gameVars >>

NextHasPath == HasPath

SpecHasPath == InitHasPath /\ [][NextHasPath]_vars

\* A sequence of at most n further 4-adjacent, in-bounds, passable tiles leads
\* from some position of `from` to goal.
RECURSIVE WalkReaches(_, _, _, _)
WalkReaches(l, from, goal, n) ==
    \/ goal \in from
    \/ /\ n > 0
       /\ WalkReaches(l, from \cup UNION { PassableNeighbors(l, p) : p \in from }, goal, n - 1)

\* A walk over passable tiles only, start and goal included.
PassableWalk(l, start, goal) ==
    /\ is_passable(get_tile(l, start))
    /\ WalkReaches(l, {start}, goal, l.width * l.height)

CarveWidth == 6
CarveHeight == 4

\* The failure budget of the generators the loop is run with.
CarveFailures == 2

\* RoomCorridorGenerator::with_settings(Random, CarveFailures), and the
\* single-floor generator with the same budget.
CarveGenerators ==
    { [ GeneratorNew EXCEPT !.max_connectivity_failures = CarveFailures ],
      [ GeneratorForTesting EXCEPT !.max_connectivity_failures = CarveFailures ] }

\* Room 0 in the first interior tile, room 1 in any other interior tile.
CarveRooms(w, h) ==
    { << RoomNew(0, <<1, 1>>, 1, 1), RoomNew(1, p, 1, 1) >> :
        p \in { q \in Positions(w, h) : /\ q[1] >= 1 /\ q[1] <= w - 2
                                        /\ q[2] >= 1 /\ q[2] <= h - 2
                                        /\ q # <<1, 1>> } }

\* The level initialized with the rooms, with down stairs in room 1, and the
\* locals of progressive_wall_placement before its loop.
InitCarve ==
    /\ generator \in CarveGenerators
    /\ config = GenerationConfig
    /\ pc = "carve"
    /\ GameIdle
    /\ single_run = NoRun
    /\ search = NoSearch
    /\ stair_positions = <<>>
    /\ floor_id = 0
    /\ candidate_pos = NoPos
    /\ plan_attempts = 0
    /\ room_target = 0
    /\ room_attempts = 0
    /\ rooms \in CarveRooms(CarveWidth, CarveHeight)
    /\ level = set_tile(initialize_level_with_rooms(LevelNew(0, CarveWidth, CarveHeight), rooms),
                        rooms[2].top_left, "StairsDown")
    /\ available_positions = get_non_room_floor_positions(level, rooms)
    /\ max_walls_to_place = Cardinality(available_positions) \div WallQuotaDivisor
    /\ connectivity_failures = 0
    /\ walls_placed = 0
    /\ endpoints = <<NoPos, NoPos>>
    /\ before = level
    /\ world = WorldNew
    /\ result = "none"

\* The loop is left and progressive_wall_placement returns Ok(()).
CarveReturn ==
    /\ pc = "carve"
    /\ ~CarveContinues(generator, connectivity_failures, available_positions,
                       walls_placed, max_walls_to_place)
    /\ pc' = "carve_done"
    /\ result' = "Ok"
    /\ UNCHANGED << generator, config, planVars, floor_id, level, roomVars, carveVars, world,
                    checkVars, gameVars >>

NextCarve == CarveKeep \/ CarveRevert \/ CarveReturn

SpecCarve == InitCarve /\ [][NextCarve]_vars

\* The loop is a sequential program: an enabled step is taken.
SpecCarveLive == SpecCarve /\ WF_vars(NextCarve)

\* The number of non-room Floor tiles when carving started.
CarvePool == Cardinality(get_non_room_floor_positions(before, rooms))

\* C24: in multi-floor mode carving keeps at most N / 3 walls, N the number of
\* non-room Floor tiles at its start, reverts at most
\* max_connectivity_failures / 2 candidates, continues only while neither
\* limit is reached and a candidate remains, and stops when one of the three
\* holds.
C24_MultiFloorLimits ==
    (generator.generate_all_floors /\ pc \in {"carve", "carve_done"}) =>
        /\ max_walls_to_place = CarvePool \div 3
        /\ walls_placed <= CarvePool \div 3
        /\ connectivity_failures <= generator.max_connectivity_failures \div 2
        /\ WallCount(level) = WallCount(before) + walls_placed
        /\ pc = "carve_done" =>
              \/ walls_placed = CarvePool \div 3
              \/ connectivity_failures = generator.max_connectivity_failures \div 2
              \/ available_positions = {}
        /\ (ENABLED CarveKeep \/ ENABLED CarveRevert) =>
              /\ walls_placed < CarvePool \div 3
              /\ connectivity_failures < generator.max_connectivity_failures \div 2
              /\ available_positions # {}

C24_Witness ==
    /\ generator.generate_all_floors
    /\ pc = "carve_done"
    /\ connectivity_failures = generator.max_connectivity_failures \div 2
    /\ connectivity_failures > 0
    /\ walls_placed > 0
    /\ walls_placed < max_walls_to_place
    /\ available_positions # {}

\* C25: in single-floor mode the wall quota does not apply: carving stops only
\* when the failure budget is used up or no candidate remains.
C25_SingleFloorNoQuota ==
    (~generator.generate_all_floors /\ pc = "carve_done") =>
        \/ connectivity_failures = generator.max_connectivity_failures
        \/ available_positions = {}

\* C26: progressive_wall_placement always terminates and returns Ok: every
\* iteration removes one candidate from the pool, so the candidates left, the
\* walls kept and the failures counted always add up to the pool of N
\* positions it started with, and a failed connectivity check is counted, not
\* returned as an error.
C26_CarveTerminatesOk ==
    /\ <>(pc = "carve_done" /\ result = "Ok")
    /\ [](pc \in {"carve", "carve_done"} =>
            /\ Cardinality(available_positions) + walls_placed + connectivity_failures
                   = CarvePool
            /\ result # "GenerationFailed")
    /\ [][ (pc = "carve" /\ pc' = "carve") =>
             /\ available_positions' \subseteq available_positions
             /\ Cardinality(available_positions') = Cardinality(available_positions) - 1 ]_vars

C26_Witness ==
    /\ pc = "carve_done"
    /\ result = "Ok"
    /\ connectivity_failures > 0
    /\ walls_placed > 0

\* =================================================================
\* fill_unreachable_areas on its own (specification SpecFill)
\* =================================================================

FillWidth == 3

\* The grids fill_unreachable_areas is run on: two rows, every tile Wall,
\* Floor or StairsDown, the spawn point anywhere.
FillLevels(w) ==
    { [ LevelNew(0, w, 2) EXCEPT !.tiles = t, !.player_spawn = spawn ] :
        t \in [ Positions(w, 2) -> {"Wall", "Floor", "StairsDown"} ],
        spawn \in Positions(w, 2) }

InitFill ==
    /\ generator = GeneratorNew
    /\ config = GenerationConfig
    /\ pc = "fill"
    /\ LocalsIdle
    /\ level \in FillLevels(FillWidth)
    /\ endpoints = <<NoPos, NoPos>>
    /\ before = level
    /\ world = WorldNew
    /\ result = "none"

\* The call fill_unreachable_areas(level): an error when the flood fill from
\* the spawn point reaches nothing, the conversion otherwise.
Fill ==
    /\ pc = "fill"
    /\ IF flood_fill_reachable(level, level.player_spawn) = {}
       THEN /\ result' = "GenerationFailed"
            /\ level' = level
       ELSE /\ result' = "Ok"
            /\ level' = fill_unreachable_areas(level)
    /\ pc' = "fill_done"
    /\ UNCHANGED << generator, config, planVars, floor_id, roomVars, carveVars, world,
                    checkVars, gameVars >>

NextFill == Fill

SpecFill == InitFill /\ [][NextFill]_vars

\* C27: with a passable spawn tile, after fill_unreachable_areas every
\* passable tile that is no stair is reachable from the spawn point, every
\* tile that was reachable before is unchanged and no stair tile is changed;
\* with a spawn tile that is not passable the call fails and changes no tile.
C27_FillUnreachable ==
    pc = "fill_done" =>
        IF is_passable(get_tile(before, before.player_spawn))
        THEN /\ result = "Ok"
             /\ level.player_spawn = before.player_spawn
             /\ \A p \in DOMAIN level.tiles :
                   /\ (is_passable(level.tiles[p]) /\ ~IsStairs(level.tiles[p])) =>
                          PassableWalk(level, level.player_spawn, p)
                   /\ PassableWalk(before, before.player_spawn, p) =>
                          level.tiles[p] = before.tiles[p]
                   /\ IsStairs(before.tiles[p]) => level.tiles[p] = before.tiles[p]
                   /\ level.tiles[p] # before.tiles[p] => level.tiles[p] = "Wall"
        ELSE /\ result = "GenerationFailed"
             /\ level = before

C27_Witness ==
    /\ pc = "fill_done"
    /\ result = "Ok"
    /\ \E p \in DOMAIN level.tiles : before.tiles[p] = "Floor" /\ level.tiles[p] = "Wall"
    /\ \E p \in DOMAIN level.tiles :
          /\ IsStairs(level.tiles[p])
          /\ ~PassableWalk(level, level.player_spawn, p)
    /\ \E p \in DOMAIN level.tiles :
          p # level.player_spawn /\ PassableWalk(level, level.player_spawn, p)

\* =================================================================
\* The position index of GameState (specification SpecIndex)
\* =================================================================

\* The worlds with levels 0..n whose spawn points are the tiles entities are
\* placed on, so that the player and another entity can share a tile.
IndexWorlds(n) ==
    { [ i \in 0 .. n |->
          LevelHeader([ LevelNew(i, LevelWidth, LevelHeight) EXCEPT
                          !.tiles[spawn[i]] = "Floor",
                          !.player_spawn = spawn[i] ]) ] :
        spawn \in [ 0 .. n -> PlayerStartDraws ] }

\* GameState::new_with_complete_dungeon on a world of NumFloors levels.
InitIndex ==
    /\ generator = GeneratorNew
    /\ config = GenerationConfig
    /\ pc = "playing"
    /\ world \in IndexWorlds(LastFloor)
    /\ game = GameNew(world)
    /\ prev_game = GameNew(world)
    /\ call = NoCall
    /\ single_run = NoRun
    /\ search = NoSearch
    /\ stair_positions = <<>>
    /\ floor_id = 0
    /\ candidate_pos = NoPos
    /\ plan_attempts = 0
    /\ rooms = <<>>
    /\ room_target = 0
    /\ room_attempts = 0
    /\ available_positions = {}
    /\ connectivity_failures = 0
    /\ walls_placed = 0
    /\ max_walls_to_place = 0
    /\ level = NoLevel
    /\ endpoints = <<NoPos, NoPos>>
    /\ before = NoLevel
    /\ result = "none"

\* add_entity and set_entity_position for any of the entity ids.
AddEntities == AddEntityOf(EntityIds)
SetEntityPositions == SetEntityPositionOf(EntityIds)

NextIndex ==
    \/ InitializePlayer \/ AddEntities \/ SetPlayerId
    \/ SetEntityPositions \/ UseStairs \/ ChangeToLevel

SpecIndex == InitIndex /\ [][NextIndex]_vars

\* The places of the position index that list entity_id.
IndexEntries(g, entity_id) ==
    { e \in { <<p, i>> : p \in DOMAIN g.position_index, i \in 1 .. 2 * Cardinality(EntityIds) } :
        /\ e[2] <= Len(g.position_index[e[1]])
        /\ g.position_index[e[1]][e[2]] = entity_id }

\* The index lists every entity exactly once, under its current position,
\* lists nothing else and has no empty list.
IndexConsistent(g) ==
    /\ \A entity_id \in DOMAIN g.entities :
          IndexEntries(g, entity_id) = { <<g.entities[entity_id], 1>> }
             \/ IndexEntries(g, entity_id) = { <<g.entities[entity_id], 2>> }
    /\ \A p \in DOMAIN g.position_index :
          /\ g.position_index[p] # << >>
          /\ \A i \in 1 .. Len(g.position_index[p]) :
                g.position_index[p][i] \in DOMAIN g.entities

\* player_id is unset or names an entity (set_player_id is called after the
\* player entity is added).
PlayerIdValid(g) ==
    IsSome(g.player_id) => Unwrap(g.player_id) \in DOMAIN g.entities

\* C30: add_entity with distinct ids, set_entity_position and successful or
\* failed change_to_level / use_stairs calls keep the position index
\* consistent: a call made on a consistent index, with player_id unset or
\* naming an entity, leaves every entity listed exactly once under its
\* current position and no empty list; the index of a new game is consistent.
C30_PositionIndexConsistent ==
    /\ (call.op = "none" => IndexConsistent(game))
    /\ ((IndexConsistent(prev_game) /\ PlayerIdValid(prev_game)) => IndexConsistent(game))

\* Both entities stood on one tile and the player left it by a change of
\* level; the other entity is still listed there.
C30_Witness ==
    /\ IndexConsistent(game) /\ PlayerIdValid(game)
    /\ call.op = "change_to_level" /\ result = "Ok"
    /\ PlayerPresent(prev_game)
    /\ OtherEntity \in DOMAIN prev_game.entities
    /\ prev_game.entities[OtherEntity] = prev_game.entities[PlayerEntity]
    /\ game.entities[PlayerEntity] # prev_game.entities[PlayerEntity]
    /\ game.position_index[prev_game.entities[PlayerEntity]] = << OtherEntity >>

====
